---- MODULE Spec2Model ----
(***************************************************************************)
(* Model of src/utils/imageUtils.ts: generatePreviewAndGuides and its      *)
(* helper drawDesignsOnCanvas.                                             *)
(*                                                                         *)
(* One composition request is followed from the call to the settling of    *)
(* the returned promise.  The host platform (image decoding, the canvas    *)
(* rasterizer, getContext) is the environment: a decode ends in onload or  *)
(* onerror in any order, getContext yields a context or null, and the      *)
(* pixels drawImage produces for a design are drawn from a small alphabet. *)
(* A canvas is sampled at NumPixels pixels.  JavaScript numbers are        *)
(* modelled as exact rationals.                                            *)
(***************************************************************************)
EXTENDS Integers, Sequences, FiniteSets, TLC

(* ------------------------------ bounds --------------------------------- *)

\* longest design-image list and longest placement list of a request
MaxDesigns == 2

\* number of sampled pixels of every canvas
NumPixels == 1

(* --------------------------- rational numbers -------------------------- *)

Abs(k) == IF k < 0 THEN -k ELSE k

RECURSIVE GCD(_, _)
GCD(a, b) == IF b = 0 THEN a ELSE GCD(b, a % b)

\* the rational n/d (d # 0) in lowest terms with a positive denominator
Norm(n, d) ==
    LET s == IF d < 0 THEN -1 ELSE 1
        g == GCD(Abs(n), Abs(d))
    IN  [n |-> (s * n) \div g, d |-> (s * d) \div g]

RInt(k) == [n |-> k, d |-> 1]
RMul(a, b) == Norm(a.n * b.n, a.d * b.d)
RDiv(a, b) == Norm(a.n * b.d, a.d * b.n)
RAdd(a, b) == Norm(a.n * b.d + b.n * a.d, a.d * b.d)
RNeg(a) == [n |-> -a.n, d |-> a.d]

(* ------------------------------ the inputs ----------------------------- *)

MockupTypes == {"PRINT", "ENGRAVE", "EMBOSS"}

\* editor viewports (containerSize) a request is authored against
Containers == { [width |-> 400, height |-> 300], [width |-> 400, height |-> 400] }

\* natural sizes of the decoded base image
NaturalSizes == { [width |-> 800, height |-> 600], [width |-> 600, height |-> 450] }

Placement(x, y, w, h, r) ==
    [position |-> [x |-> x, y |-> y], size |-> [width |-> w, height |-> h], rotation |-> r]

\* layouts of the editor: the whole viewport, and one footprint under two
\* rotations, in two stacking orders
EditorLayouts(c) ==
    { << Placement(100, 100, 50, 50, 45), Placement(100, 100, 50, 50, 0),
         Placement(0, 0, c.width, c.height, 0), Placement(100, 100, 50, 50, 45) >>,
      << Placement(0, 0, c.width, c.height, 0), Placement(100, 100, 50, 50, 45),
         Placement(100, 100, 50, 50, 0), Placement(0, 0, c.width, c.height, 0) >> }

Min(a, b) == IF a < b THEN a ELSE b

\* the DesignTransform lists a request can carry: the first m placements of a
\* layout
DesignLists(c) ==
    { SubSeq(l, 1, m) : l \in EditorLayouts(c), m \in 0..Min(MaxDesigns, 4) }

\* RGBA pixels, each channel 0..255
Transparent == <<0, 0, 0, 0>>

\* what the rasterizer can leave at a sampled pixel when it draws a design:
\* nothing, an opaque pixel, and antialiased edge pixels on either side of the
\* alpha threshold
DesignPixels == { Transparent, <<200, 0, 0, 255>>, <<200, 0, 0, 10>>, <<200, 0, 0, 11>> }

\* pixels of the decoded base image
WalletPixels == { <<90, 60, 30, 255>>, <<200, 200, 200, 255>> }

Canvases(S) == [1..NumPixels -> S]

NoImage == [mime |-> "", px |-> <<>>]

(* ------------------------- host canvas semantics ----------------------- *)

\* integer division rounded to the nearest integer (b > 0, a >= 0)
RoundDiv(a, b) == (2 * a + b) \div (2 * b)

\* source-over compositing of one pixel onto another, as drawImage does
SrcOver(src, dst) ==
    LET sa == src[4]
        da == dst[4]
        oa == sa + RoundDiv(da * (255 - sa), 255)
        ch(c) == IF oa = 0 THEN 0
                 ELSE RoundDiv(src[c] * sa * 255 + dst[c] * da * (255 - sa), 255 * oa)
    IN  <<ch(1), ch(2), ch(3), oa>>

\* ctx.drawImage(source, 0, 0) of a canvas-sized source onto a canvas
DrawCanvas(src, dst) == [i \in 1..NumPixels |-> SrcOver(src[i], dst[i])]

\* document.createElement('canvas'): a transparent canvas
NewCanvas == [i \in 1..NumPixels |-> Transparent]

\* canvas.toDataURL('image/jpeg'): JPEG carries no alpha, the pixels are
\* flattened onto black; the result is tagged with its format
Encode(canvas) ==
    [mime |-> "image/jpeg",
     px   |-> [i \in 1..NumPixels |->
                 << RoundDiv(canvas[i][1] * canvas[i][4], 255),
                    RoundDiv(canvas[i][2] * canvas[i][4], 255),
                    RoundDiv(canvas[i][3] * canvas[i][4], 255) >>]]

(* --------------------------- drawDesignsOnCanvas ----------------------- *)

\* variant: the scale taken from the viewport's height
ScaleByHeight(fullWidth, containerSize) ==
    RDiv(RInt(fullWidth), RInt(containerSize.height))

\* const scale = fullWidth / containerSize.width
Scale(fullWidth, containerSize) == RDiv(RInt(fullWidth), RInt(containerSize.width))

ScaledX(design, scale) == RMul(RInt(design.position.x), scale)
ScaledY(design, scale) == RMul(RInt(design.position.y), scale)
ScaledWidth(design, scale) == RMul(RInt(design.size.width), scale)
ScaledHeight(design, scale) == RMul(RInt(design.size.height), scale)

\* variant: a rotated design pivots about its top-left corner
CenterXTopLeft(design, scale) ==
    IF design.rotation = 0
    THEN RAdd(ScaledX(design, scale), RDiv(ScaledWidth(design, scale), RInt(2)))
    ELSE ScaledX(design, scale)

\* const centerX = scaledX + scaledWidth / 2
CenterX(design, scale) ==
    RAdd(ScaledX(design, scale), RDiv(ScaledWidth(design, scale), RInt(2)))
CenterY(design, scale) ==
    RAdd(ScaledY(design, scale), RDiv(ScaledHeight(design, scale), RInt(2)))

\* rotation * Math.PI / 180, kept as the rational multiple of pi
RotateAngle(design) == Norm(design.rotation, 180)

\* the rectangle handed to ctx.drawImage, relative to the translated origin
DrawRect(design, scale) ==
    [x |-> RDiv(RNeg(ScaledWidth(design, scale)), RInt(2)),
     y |-> RDiv(RNeg(ScaledHeight(design, scale)), RInt(2)),
     w |-> ScaledWidth(design, scale),
     h |-> ScaledHeight(design, scale)]

\* the canvas calls of one forEach iteration: save, translate, rotate,
\* drawImage, restore
DesignCalls(designImg, index, design, scale) ==
    [index     |-> index,
     image     |-> designImg,
     design    |-> design,
     translate |-> [x |-> CenterX(design, scale), y |-> CenterY(design, scale)],
     rotate    |-> RotateAngle(design),
     rect      |-> DrawRect(design, scale)]

(* ----------------------- the 2D context's state ------------------------ *)

\* a fresh context: the identity transform (no operation applied), an empty
\* save stack, and the transform in effect at each drawImage so far
NewContext == [transform |-> <<>>, stack |-> <<>>, drawn |-> <<>>]

\* ctx.save()
CtxSave(ctx) == [ctx EXCEPT !.stack = Append(@, ctx.transform)]

\* ctx.translate(x, y)
CtxTranslate(ctx, x, y) ==
    [ctx EXCEPT !.transform = Append(@, [op |-> "translate", x |-> x, y |-> y])]

\* ctx.rotate(angle)
CtxRotate(ctx, angle) ==
    [ctx EXCEPT !.transform = Append(@, [op |-> "rotate", x |-> angle, y |-> RInt(0)])]

\* ctx.drawImage(...): painted under the current transform
CtxDrawImage(ctx) == [ctx EXCEPT !.drawn = Append(@, ctx.transform)]

\* variant: the iteration does not restore
CtxRestoreMissing(ctx) == ctx

\* ctx.restore(): pops the saved transform; nothing happens on an empty stack
CtxRestore(ctx) ==
    IF ctx.stack = <<>> THEN ctx
    ELSE [ctx EXCEPT !.transform = ctx.stack[Len(ctx.stack)],
                     !.stack = SubSeq(ctx.stack, 1, Len(ctx.stack) - 1)]

\* the context after one forEach iteration: save, translate, rotate,
\* drawImage, restore
PaintCtx(ctx, design, scale) ==
    CtxRestore(
      CtxDrawImage(
        CtxRotate(
          CtxTranslate(CtxSave(ctx), CenterX(design, scale), CenterY(design, scale)),
          RotateAngle(design))))

(* ------------------------- guide derivation ---------------------------- *)

alphaThreshold == 10

Magenta == <<255, 0, 255, 255>>

\* variant: the threshold compared with >=
RewritePixelAtLeast(p) ==
    IF p[4] >= alphaThreshold THEN Magenta ELSE <<p[1], p[2], p[3], 0>>

\* variant: a pixel made transparent is cleared to transparent black
RewritePixelClearsRgb(p) ==
    IF p[4] > alphaThreshold THEN Magenta ELSE <<0, 0, 0, 0>>

\* the body of the pixel loop
RewritePixel(p) ==
    IF p[4] > alphaThreshold THEN Magenta ELSE <<p[1], p[2], p[3], 0>>

\* the loop over imageData.data
RewritePlate(pixels) == [i \in 1..NumPixels |-> RewritePixel(pixels[i])]

\* xxxCtx.drawImage(walletImg, 0, 0, fullWidth, fullHeight) on a new canvas
WalletCanvas(wallet) == DrawCanvas(wallet.px, NewCanvas)

\* variant: the capture canvas is drawn after the plate's pixels were rewritten
CaptureOfRewritten(wallet, plateCanvas) ==
    Encode(DrawCanvas([i \in 1..NumPixels |->
                         IF plateCanvas[i][4] > 10 THEN <<255, 0, 255, 255>>
                         ELSE <<plateCanvas[i][1], plateCanvas[i][2], plateCanvas[i][3], 0>>],
                      DrawCanvas(wallet.px, NewCanvas)))

\* the capture image: base image, design plate on top, encoded
CaptureOf(wallet, plateCanvas) == Encode(DrawCanvas(plateCanvas, WalletCanvas(wallet)))

\* the magenta guide: base image, rewritten plate on top, encoded
MagentaGuideOf(wallet, rewritten) == Encode(DrawCanvas(rewritten, WalletCanvas(wallet)))

\* variant: the PRINT case falls through to the magenta guide
PrintGuideFallsThrough(capture, wallet, plateCanvas) ==
    MagentaGuideOf(wallet, RewritePlate(plateCanvas))

\* case MockupType.PRINT: guideImage = captureImage
PrintGuideOf(capture, wallet, plateCanvas) == capture

(* ------------------------------ promises ------------------------------- *)

Pending == [state |-> "pending", captureImage |-> NoImage, guideImage |-> NoImage,
            reason |-> <<"", 0>>]

\* resolve / reject settle a promise once; later calls are ignored
Resolve(p, capture, guide) ==
    IF p.state = "pending"
    THEN [p EXCEPT !.state = "resolved", !.captureImage = capture, !.guideImage = guide]
    ELSE p

Reject(p, reason) ==
    IF p.state = "pending" THEN [p EXCEPT !.state = "rejected", !.reason = reason] ELSE p

\* variant: no onerror handler on the base image
WalletErrorIgnored(p) == p

\* walletImg.onerror = () => reject(new Error(...))
WalletError(p) == Reject(p, <<"Failed to load wallet image for processing", 0>>)

\* img.onerror = () => rejectImg(new Error(`Failed to load design image: ${src}`))
DesignError(src) == <<"Failed to load design image", src>>

\* the outcome a design decode event leaves in its promise
ImgOnloadOutcome == "loaded"
ImgOnerrorOutcome == "error"

\* variant: the batch waits for every decode to settle and then fulfils
PromiseAllSettled(states) ==
    IF \A i \in DOMAIN states : states[i] \in {"loaded", "error"} THEN "fulfilled"
    ELSE "pending"

\* variant: the batch fulfils as soon as one decode has succeeded
PromiseAllFirstWins(states) ==
    IF \E i \in DOMAIN states : states[i] = "error" THEN "rejected"
    ELSE IF states = <<>> \/ \E i \in DOMAIN states : states[i] = "loaded" THEN "fulfilled"
    ELSE "pending"

\* Promise.all over the design promises
PromiseAll(states) ==
    IF \E i \in DOMAIN states : states[i] = "error" THEN "rejected"
    ELSE IF \A i \in DOMAIN states : states[i] = "loaded" THEN "fulfilled"
    ELSE "pending"

\* variant: the images in the order their decodes completed
AllResultByCompletion(srcs, completionOrder) ==
    [i \in DOMAIN completionOrder |-> srcs[completionOrder[i]]]

\* the value Promise.all fulfils with: the images in input order, whatever the
\* order the decodes completed in
AllResult(srcs, completionOrder) == [i \in DOMAIN srcs |-> srcs[i]]

\* variant: the chain has no .catch(reject)
CatchRejectMissing(p, reason) == p

\* .catch(reject): an error thrown in the then-callback, or the rejection of
\* Promise.all, rejects the returned promise
CatchReject(p, reason) == Reject(p, reason)

\* a TypeError thrown inside the then-callback
TypeError == <<"TypeError", 0>>

(* --------------------------------- App --------------------------------- *)

\* the state of App (src/App.tsx)
VARIABLES
    app,                \* the component's useState values
    request,            \* the generateMockup call in flight, if any
    storage,            \* localStorage['gemini-api-key']
    generated           \* the assets the last handleGenerate call was given

Null == "null"

\* API keys a user can submit
Keys == {"key1", "key2"}

\* results generateMockup can return
Results == {"mockup1", "mockup2"}

NullAssets == [captureImage |-> Null, guideImage |-> Null]

NullSize == [width |-> 0, height |-> 0]

\* what the editor hands to onGenerate: the assets of a composition, the
\* placements, the viewport and the mockup type
EditorOutputs ==
    { [assets |-> [captureImage |-> "capture1", guideImage |-> "guide1"],
       designs |-> "layout1", containerSize |-> [width |-> 400, height |-> 300],
       mockupType |-> "ENGRAVE"],
      [assets |-> [captureImage |-> "capture2", guideImage |-> "capture2"],
       designs |-> "layout2", containerSize |-> [width |-> 400, height |-> 400],
       mockupType |-> "PRINT"],
      [assets |-> [captureImage |-> "capture1", guideImage |-> "guide3"],
       designs |-> "layout1", containerSize |-> [width |-> 400, height |-> 300],
       mockupType |-> "EMBOSS"] }

\* the useState initial values; apiKey comes from localStorage
InitialApp(key) ==
    [apiKey               |-> key,
     apiKeyError          |-> Null,
     appState             |-> "UPLOAD_FILES",
     walletImage          |-> Null,
     designImages         |-> 0,
     mockupResult         |-> Null,
     error                |-> Null,
     lastEditorData       |-> Null,
     lastMockupType       |-> "ENGRAVE",
     lastContainerSize    |-> NullSize,
     captureImage         |-> Null,
     lastGenerationAssets |-> NullAssets]

NoRequest == [active |-> FALSE, image |-> Null, mockupType |-> "ENGRAVE", apiKey |-> Null]

\* what is on screen: the key form when there is no key, else renderContent
KeyScreenShown == app.apiKey = Null
UploadShown == app.apiKey # Null /\ app.appState = "UPLOAD_FILES"
EditorShown ==
    /\ app.apiKey # Null /\ app.appState = "EDIT"
    /\ app.walletImage # Null /\ app.designImages > 0
ConfirmShown ==
    app.apiKey # Null /\ app.appState = "CONFIRM" /\ app.captureImage # Null
ResultShown ==
    app.apiKey # Null /\ app.appState = "RESULT" /\ app.mockupResult # Null

\* variant: the capture image is sent to generateMockup
GenerateMockupInputCapture(assets) == assets.captureImage

\* the image argument of generateMockup
GenerateMockupInput(assets) == assets.guideImage

\* runGeneration up to the await: the component state it leaves
RunGenerationState(a) ==
    IF a.apiKey = Null
    THEN [a EXCEPT !.error = "API Key is not set.", !.appState = "UPLOAD_FILES"]
    ELSE [a EXCEPT !.appState = "GENERATING", !.error = Null, !.apiKeyError = Null]

\* runGeneration up to the await: the generateMockup call it issues
RunGenerationRequest(a, assets, mockupType) ==
    IF a.apiKey = Null THEN NoRequest
    ELSE [active |-> TRUE, image |-> GenerateMockupInput(assets),
          mockupType |-> mockupType, apiKey |-> a.apiKey]

\* runGeneration after the await, generateMockup having returned resultData
RunGenerationSucceeded(a, resultData) ==
    [a EXCEPT !.mockupResult = resultData, !.appState = "RESULT"]

\* the catch branch for err.message === 'API_KEY_INVALID'
RunGenerationKeyInvalid(a) ==
    [a EXCEPT !.apiKey = Null, !.apiKeyError = "apiKeyError"]

\* the catch branch for any other error
RunGenerationFailed(a) ==
    [a EXCEPT !.error = "errorFailedToGenerate", !.appState = "EDIT"]

\* handleGenerate
GenerateState(a, out) ==
    [a EXCEPT !.captureImage = out.assets.captureImage,
              !.lastGenerationAssets = out.assets,
              !.lastEditorData = out.designs,
              !.lastContainerSize = out.containerSize,
              !.lastMockupType = out.mockupType,
              !.appState = "CONFIRM"]

\* variant: cancelling clears the preview and stays on the confirmation screen
CancelConfirmStays(a) == [a EXCEPT !.captureImage = Null]

\* handleCancelConfirm
CancelConfirmState(a) == [a EXCEPT !.appState = "EDIT", !.captureImage = Null]

\* handleReset
ResetState(a) ==
    [a EXCEPT !.appState = "UPLOAD_FILES", !.walletImage = Null, !.designImages = 0,
              !.mockupResult = Null, !.error = Null, !.lastEditorData = Null,
              !.lastMockupType = "ENGRAVE", !.captureImage = Null,
              !.lastContainerSize = NullSize, !.lastGenerationAssets = NullAssets]

(* ------------------------------- state --------------------------------- *)

VARIABLES
    pc,                 \* where the request is: "walletLoading", "designsLoading",
                        \* "plate", "paint", "capture", "guide", "done"
    req,                \* the arguments of generatePreviewAndGuides
    walletImg,          \* the base image element
    imgs,               \* state of each design image decode
    completed,          \* design indexes in the order their decodes succeeded
    allP,               \* state of Promise.all(designImagePromises)
    loadedDesignImages, \* the value Promise.all fulfilled with
    plate,              \* pixels of designPlateCanvas (<<>> before it exists)
    plateCalls,         \* the drawing calls made on designPlateCtx, in order
    plateCtx,           \* the state of designPlateCtx
    idx,                \* index of the forEach iteration to run next
    captureImage,       \* the local captureImage
    guideImage,         \* the local guideImage
    promise,            \* the promise generatePreviewAndGuides returned
    ctxNull             \* the canvases whose getContext('2d') yielded null

compVars == << pc, req, walletImg, imgs, completed, allP, loadedDesignImages, plate,
               plateCalls, plateCtx, idx, captureImage, guideImage, promise, ctxNull >>

appVars == << app, request, storage, generated >>

vars == << compVars, appVars >>

\* App before it is mounted
AppIdle ==
    /\ app = InitialApp(Null)
    /\ request = NoRequest
    /\ storage = Null
    /\ generated = NullAssets

\* The state when generatePreviewAndGuides returns: the promise is pending and
\* the base image decode has been started.
Init ==
    /\ AppIdle
    /\ pc = "walletLoading"
    /\ \E n \in 0..MaxDesigns, c \in Containers, t \in MockupTypes :
         \E ds \in DesignLists(c) :
            req = [designImagesSrc |-> [i \in 1..n |-> i],
                   designs         |-> ds,
                   containerSize   |-> c,
                   mockupType      |-> t]
    /\ walletImg = [state |-> "loading", naturalWidth |-> 0, naturalHeight |-> 0,
                    px |-> <<>>]
    /\ imgs = <<>>
    /\ completed = <<>>
    /\ allP = "none"
    /\ loadedDesignImages = <<>>
    /\ plate = <<>>
    /\ plateCalls = <<>>
    /\ plateCtx = NewContext
    /\ idx = 0
    /\ captureImage = NoImage
    /\ guideImage = NoImage
    /\ promise = Pending
    /\ ctxNull = {}

(* ------------------------------ actions -------------------------------- *)

\* walletImg.onerror
WalletOnerror ==
    /\ pc = "walletLoading"
    /\ walletImg.state = "loading"
    /\ walletImg' = [walletImg EXCEPT !.state = "error"]
    /\ promise' = WalletError(promise)
    /\ pc' = "done"
    /\ UNCHANGED << req, imgs, completed, allP, loadedDesignImages, plate, plateCalls,
                    idx, captureImage, guideImage, ctxNull >>
    /\ UNCHANGED plateCtx
    /\ UNCHANGED appVars

\* walletImg.onload: every design decode is started and Promise.all is formed;
\* with no design the batch is fulfilled at once
WalletOnload ==
    /\ pc = "walletLoading"
    /\ walletImg.state = "loading"
    /\ \E size \in NaturalSizes, px \in Canvases(WalletPixels) :
         walletImg' = [state |-> "loaded", naturalWidth |-> size.width,
                       naturalHeight |-> size.height, px |-> px]
    /\ imgs' = [i \in DOMAIN req.designImagesSrc |-> "loading"]
    /\ allP' = PromiseAll(imgs')
    /\ loadedDesignImages' =
         IF allP' = "fulfilled" THEN AllResult(req.designImagesSrc, completed)
         ELSE loadedDesignImages
    /\ pc' = IF allP' = "fulfilled" THEN "plate" ELSE "designsLoading"
    /\ UNCHANGED << req, completed, plate, plateCalls, idx, captureImage, guideImage,
                    promise, ctxNull >>
    /\ UNCHANGED plateCtx
    /\ UNCHANGED appVars

\* img.onload of design i: resolveImg(img); when it is the last one Promise.all
\* fulfils and the then-callback runs next
ImgOnload(i) ==
    /\ i \in DOMAIN imgs
    /\ imgs[i] = "loading"
    /\ imgs' = [imgs EXCEPT ![i] = ImgOnloadOutcome]
    /\ completed' = Append(completed, i)
    /\ IF allP = "pending"
       THEN /\ allP' = PromiseAll(imgs')
            /\ loadedDesignImages' =
                 IF allP' = "fulfilled" THEN AllResult(req.designImagesSrc, completed')
                 ELSE loadedDesignImages
            /\ pc' = IF allP' = "fulfilled" THEN "plate" ELSE pc
       ELSE UNCHANGED << allP, loadedDesignImages, pc >>
    /\ UNCHANGED << req, walletImg, plate, plateCalls, idx, captureImage, guideImage,
                    promise, ctxNull >>
    /\ UNCHANGED plateCtx
    /\ UNCHANGED appVars

\* img.onerror of design i: rejectImg(...); the first one rejects Promise.all,
\* whose rejection .catch(reject) hands to the returned promise
ImgOnerror(i) ==
    /\ i \in DOMAIN imgs
    /\ imgs[i] = "loading"
    /\ imgs' = [imgs EXCEPT ![i] = ImgOnerrorOutcome]
    /\ IF allP = "pending"
       THEN /\ allP' = PromiseAll(imgs')
            /\ loadedDesignImages' =
                 IF allP' = "fulfilled" THEN AllResult(req.designImagesSrc, completed)
                 ELSE loadedDesignImages
            /\ pc' = IF allP' = "fulfilled" THEN "plate"
                     ELSE IF allP' = "rejected" THEN "done" ELSE pc
            /\ promise' = IF allP' = "rejected"
                          THEN CatchReject(promise, DesignError(req.designImagesSrc[i]))
                          ELSE promise
       ELSE UNCHANGED << allP, loadedDesignImages, pc, promise >>
    /\ UNCHANGED << req, walletImg, completed, plate, plateCalls, idx, captureImage,
                    guideImage, ctxNull >>
    /\ UNCHANGED plateCtx
    /\ UNCHANGED appVars

\* an error thrown in the then-callback: the callback ends, .catch(reject) runs
Throw(canvas) ==
    /\ promise' = CatchReject(promise, TypeError)
    /\ pc' = "done"
    /\ ctxNull' = ctxNull \cup canvas

\* start of the then-callback: the design plate canvas and its context; a null
\* context throws at designPlateCtx.imageSmoothingEnabled = false
PlateSetup ==
    /\ pc = "plate"
    /\ \E ok \in BOOLEAN :
         IF ok
         THEN /\ plate' = NewCanvas
              /\ plateCtx' = NewContext
              /\ idx' = 1
              /\ pc' = IF Len(loadedDesignImages) = 0 THEN "capture" ELSE "paint"
              /\ UNCHANGED << promise, ctxNull >>
         ELSE /\ Throw({"designPlate"})
              /\ UNCHANGED << plate, plateCtx, idx >>
    /\ UNCHANGED << req, walletImg, imgs, completed, allP, loadedDesignImages,
                    plateCalls, captureImage, guideImage >>
    /\ UNCHANGED appVars

\* one iteration of loadedDesignImages.forEach: destructuring designs[index]
\* throws when there is no such placement; otherwise the design is drawn
PaintDesign ==
    /\ pc = "paint"
    /\ idx <= Len(loadedDesignImages)
    /\ IF idx \in DOMAIN req.designs
       THEN /\ \E layer \in Canvases(DesignPixels) : plate' = DrawCanvas(layer, plate)
            /\ plateCalls' =
                 Append(plateCalls,
                        DesignCalls(loadedDesignImages[idx], idx, req.designs[idx],
                                    Scale(walletImg.naturalWidth, req.containerSize)))
            /\ plateCtx' = PaintCtx(plateCtx, req.designs[idx],
                                    Scale(walletImg.naturalWidth, req.containerSize))
            /\ idx' = idx + 1
            /\ pc' = IF idx = Len(loadedDesignImages) THEN "capture" ELSE "paint"
            /\ UNCHANGED << promise, ctxNull >>
       ELSE /\ Throw({})
            /\ UNCHANGED << plate, plateCalls, plateCtx, idx >>
    /\ UNCHANGED << req, walletImg, imgs, completed, allP, loadedDesignImages,
                    captureImage, guideImage >>
    /\ UNCHANGED appVars

\* the capture canvas: base image, design plate on top, toDataURL; a null
\* context throws at captureCtx.drawImage
Capture ==
    /\ pc = "capture"
    /\ \E ok \in BOOLEAN :
         IF ok
         THEN /\ captureImage' = CaptureOf(walletImg, plate)
              /\ pc' = "guide"
              /\ UNCHANGED << promise, ctxNull >>
         ELSE /\ Throw({"capture"})
              /\ UNCHANGED captureImage
    /\ UNCHANGED << req, walletImg, imgs, completed, allP, loadedDesignImages, plate,
                    plateCalls, idx, guideImage >>
    /\ UNCHANGED plateCtx
    /\ UNCHANGED appVars

\* case MockupType.PRINT, then resolve
GuidePrint ==
    /\ pc = "guide"
    /\ req.mockupType = "PRINT"
    /\ guideImage' = PrintGuideOf(captureImage, walletImg, plate)
    /\ promise' = Resolve(promise, captureImage, guideImage')
    /\ pc' = "done"
    /\ UNCHANGED << req, walletImg, imgs, completed, allP, loadedDesignImages, plate,
                    plateCalls, idx, captureImage, ctxNull >>
    /\ UNCHANGED plateCtx
    /\ UNCHANGED appVars

\* case MockupType.ENGRAVE / EMBOSS, then resolve: the plate's pixels are
\* rewritten in place and put back, and the plate is drawn over the base image;
\* a null context throws at magentaCtx.drawImage
GuideMagenta ==
    /\ pc = "guide"
    /\ req.mockupType \in {"ENGRAVE", "EMBOSS"}
    /\ \E ok \in BOOLEAN :
         IF ok
         THEN /\ plate' = RewritePlate(plate)
              /\ guideImage' = MagentaGuideOf(walletImg, plate')
              /\ promise' = Resolve(promise, captureImage, guideImage')
              /\ pc' = "done"
              /\ UNCHANGED ctxNull
         ELSE /\ Throw({"magentaGuide"})
              /\ UNCHANGED << plate, guideImage >>
    /\ UNCHANGED << req, walletImg, imgs, completed, allP, loadedDesignImages,
                    plateCalls, idx, captureImage >>
    /\ UNCHANGED plateCtx
    /\ UNCHANGED appVars

Next ==
    \/ WalletOnerror
    \/ WalletOnload
    \/ \E i \in 1..MaxDesigns : ImgOnload(i)
    \/ \E i \in 1..MaxDesigns : ImgOnerror(i)
    \/ PlateSetup
    \/ PaintDesign
    \/ Capture
    \/ GuidePrint
    \/ GuideMagenta

Spec == Init /\ [][Next]_vars

(* ----------------------------- App: actions ---------------------------- *)

\* no composition is running
CompositionIdle ==
    /\ pc = "idle"
    /\ req = [designImagesSrc |-> <<>>, designs |-> <<>>,
              containerSize |-> [width |-> 400, height |-> 300], mockupType |-> "PRINT"]
    /\ walletImg = [state |-> "loading", naturalWidth |-> 0, naturalHeight |-> 0,
                    px |-> <<>>]
    /\ imgs = <<>>
    /\ completed = <<>>
    /\ allP = "none"
    /\ loadedDesignImages = <<>>
    /\ plate = <<>>
    /\ plateCalls = <<>>
    /\ plateCtx = NewContext
    /\ idx = 0
    /\ captureImage = NoImage
    /\ guideImage = NoImage
    /\ promise = Pending
    /\ ctxNull = {}

\* App after its first render: the key, if any, read from localStorage
InitApp ==
    /\ CompositionIdle
    /\ storage \in Keys \cup {Null}
    /\ app = InitialApp(storage)
    /\ request = NoRequest
    /\ generated = NullAssets

\* handleKeySubmit
HandleKeySubmit(key) ==
    /\ KeyScreenShown
    /\ app' = [app EXCEPT !.apiKey = key, !.apiKeyError = Null]
    /\ storage' = key
    /\ UNCHANGED << request, generated, compVars >>

\* handleWalletUpload, the file read
HandleWalletUpload ==
    /\ UploadShown
    /\ app.walletImage = Null
    /\ app' = [app EXCEPT !.walletImage = "wallet"]
    /\ UNCHANGED << request, storage, generated, compVars >>

\* the change-product button: setWalletImage(null)
ChangeProduct ==
    /\ UploadShown
    /\ app.walletImage # Null
    /\ app' = [app EXCEPT !.walletImage = Null]
    /\ UNCHANGED << request, storage, generated, compVars >>

\* handleDesignUpload: the files read are appended
HandleDesignUpload(k) ==
    /\ UploadShown
    /\ app.designImages + k <= MaxDesigns
    /\ app' = [app EXCEPT !.designImages = @ + k]
    /\ UNCHANGED << request, storage, generated, compVars >>

\* handleRemoveDesign
HandleRemoveDesign ==
    /\ UploadShown
    /\ app.designImages > 0
    /\ app' = [app EXCEPT !.designImages = @ - 1]
    /\ UNCHANGED << request, storage, generated, compVars >>

\* the useEffect timer: both uploads present on the upload screen
EditTimer ==
    /\ app.walletImage # Null
    /\ app.designImages > 0
    /\ app.appState = "UPLOAD_FILES"
    /\ app' = [app EXCEPT !.appState = "EDIT"]
    /\ UNCHANGED << request, storage, generated, compVars >>

\* handleGenerate, called by the editor with the assets it composed
HandleGenerate(out) ==
    /\ EditorShown
    /\ app' = GenerateState(app, out)
    /\ generated' = out.assets
    /\ UNCHANGED << request, storage, compVars >>

\* handleConfirmGenerate
HandleConfirmGenerate ==
    /\ ConfirmShown
    /\ IF app.lastGenerationAssets # NullAssets
       THEN /\ app' = RunGenerationState(app)
            /\ request' = RunGenerationRequest(app, app.lastGenerationAssets,
                                               app.lastMockupType)
       ELSE /\ app' = [app EXCEPT !.appState = "EDIT"]
            /\ UNCHANGED request
    /\ UNCHANGED << storage, generated, compVars >>

\* handleCancelConfirm
HandleCancelConfirm ==
    /\ ConfirmShown
    /\ app' = CancelConfirmState(app)
    /\ UNCHANGED << request, storage, generated, compVars >>

\* handleRegenerate
HandleRegenerate ==
    /\ ResultShown
    /\ IF app.lastGenerationAssets # NullAssets
       THEN /\ app' = RunGenerationState(app)
            /\ request' = RunGenerationRequest(app, app.lastGenerationAssets,
                                               app.lastMockupType)
       ELSE /\ app' = [app EXCEPT !.appState = "EDIT"]
            /\ UNCHANGED request
    /\ UNCHANGED << storage, generated, compVars >>

\* handleAdjust
HandleAdjust ==
    /\ ResultShown
    /\ app' = [app EXCEPT !.appState = "EDIT"]
    /\ UNCHANGED << request, storage, generated, compVars >>

\* handleReset
HandleReset ==
    /\ ResultShown
    /\ app' = ResetState(app)
    /\ UNCHANGED << request, storage, generated, compVars >>

\* generateMockup resolves: runGeneration continues after the await
GenerateMockupReturns(resultData) ==
    /\ request.active
    /\ app' = RunGenerationSucceeded(app, resultData)
    /\ request' = NoRequest
    /\ UNCHANGED << storage, generated, compVars >>

\* generateMockup rejects with API_KEY_INVALID
GenerateMockupKeyInvalid ==
    /\ request.active
    /\ app' = RunGenerationKeyInvalid(app)
    /\ storage' = Null
    /\ request' = NoRequest
    /\ UNCHANGED << generated, compVars >>

\* generateMockup rejects with any other error
GenerateMockupFails ==
    /\ request.active
    /\ app' = RunGenerationFailed(app)
    /\ request' = NoRequest
    /\ UNCHANGED << storage, generated, compVars >>

NextApp ==
    \/ \E key \in Keys : HandleKeySubmit(key)
    \/ HandleWalletUpload
    \/ ChangeProduct
    \/ \E k \in 1..MaxDesigns : HandleDesignUpload(k)
    \/ HandleRemoveDesign
    \/ EditTimer
    \/ \E out \in EditorOutputs : HandleGenerate(out)
    \/ HandleConfirmGenerate
    \/ HandleCancelConfirm
    \/ HandleRegenerate
    \/ HandleAdjust
    \/ HandleReset
    \/ \E resultData \in Results : GenerateMockupReturns(resultData)
    \/ GenerateMockupKeyInvalid
    \/ GenerateMockupFails

SpecApp == InitApp /\ [][NextApp]_vars

(* ------------------------------- claims -------------------------------- *)

Keyed == {"ENGRAVE", "EMBOSS"}

\* the step in which the ENGRAVE/EMBOSS guide is derived and the promise resolved
KeyedGuideStep ==
    /\ pc = "guide"
    /\ req.mockupType \in Keyed
    /\ promise'.state = "resolved"

\* C1: in ENGRAVE/EMBOSS mode every plate pixel with alpha > 10 is rewritten
\* to exactly (255,0,255,255) and every pixel with alpha <= 10 gets alpha 0,
\* for every alpha 0..255 (so 10 becomes transparent and 11 opaque magenta);
\* the guide shows magenta where the plate was rewritten to magenta and the
\* base image everywhere else.
C1_AlphaThreshold ==
    [][ KeyedGuideStep =>
          /\ \A i \in 1..NumPixels :
               /\ plate[i][4] > 10 =>
                    /\ plate'[i] = <<255, 0, 255, 255>>
                    /\ guideImage'.px[i] = <<255, 0, 255>>
               /\ plate[i][4] <= 10 =>
                    /\ plate'[i][4] = 0
                    /\ guideImage'.px[i] =
                         <<walletImg.px[i][1], walletImg.px[i][2], walletImg.px[i][3]>>
          /\ promise'.guideImage = guideImage'
          /\ \A a \in 0..255 : \A c \in {0, 200, 255} :
               /\ a > 10 => RewritePixel(<<c, 0, c, a>>) = <<255, 0, 255, 255>>
               /\ a <= 10 => RewritePixel(<<c, 0, c, a>>)[4] = 0
          /\ RewritePixel(<<200, 0, 0, 10>>)[4] = 0
          /\ RewritePixel(<<200, 0, 0, 11>>) = <<255, 0, 255, 255>>
      ]_vars

\* a resolved ENGRAVE/EMBOSS request whose plate held a design pixel of alpha
\* exactly 10, now transparent
C1_Witness ==
    /\ promise.state = "resolved"
    /\ req.mockupType \in Keyed
    /\ \E i \in 1..NumPixels : plate[i] = <<200, 0, 0, 0>>

\* C2: for PRINT every resolved result has guideImage identical to
\* captureImage.
C2_PrintGuideIsCapture ==
    (promise.state = "resolved" /\ req.mockupType = "PRINT")
        => promise.guideImage = promise.captureImage

\* a resolved PRINT request whose plate holds a design pixel the keyed guide
\* would have recoloured
C2_Witness ==
    /\ promise.state = "resolved"
    /\ req.mockupType = "PRINT"
    /\ plateCalls # <<>>
    /\ \E i \in 1..NumPixels : plate[i][4] > 10

\* C3: once any design image has failed to decode the promise is rejected, it
\* is never resolved, and neither captureImage nor guideImage was produced.
C3_DesignFailureRejects ==
    (\E i \in DOMAIN imgs : imgs[i] = "error") =>
        /\ promise.state = "rejected"
        /\ promise.captureImage = NoImage /\ promise.guideImage = NoImage
        /\ captureImage = NoImage /\ guideImage = NoImage
        /\ plateCalls = <<>>

\* the last design of a list failed after an earlier one had decoded
C3_Witness ==
    /\ Len(imgs) >= 2
    /\ imgs[1] = "loaded"
    /\ imgs[Len(imgs)] = "error"
    /\ promise.state = "rejected"

\* C4: all design decodes are started together; no design is painted before
\* every decode has completed; the k-th design painted is the k-th image of the
\* input list with the k-th placement, whatever order the decodes completed in.
C4_PaintInListOrder ==
    /\ walletImg.state = "loaded" => Len(imgs) = Len(req.designImagesSrc)
    /\ plateCalls # <<>> => \A i \in DOMAIN imgs : imgs[i] = "loaded"
    /\ \A k \in DOMAIN plateCalls :
         /\ plateCalls[k].image = req.designImagesSrc[k]
         /\ plateCalls[k].index = k
         /\ plateCalls[k].design = req.designs[k]

\* two designs painted after the second decode completed before the first
C4_Witness ==
    /\ Len(plateCalls) >= 2
    /\ completed[1] = 2

IsFullViewport(d) ==
    /\ d.position = [x |-> 0, y |-> 0]
    /\ d.size = req.containerSize
    /\ d.rotation = 0

\* the footprint of a drawing call in canvas coordinates
Footprint(call) ==
    [x |-> RAdd(call.translate.x, call.rect.x),
     y |-> RAdd(call.translate.y, call.rect.y),
     w |-> call.rect.w,
     h |-> call.rect.h]

\* C5: a placement at (0,0) of the viewport's size and rotation 0 is drawn
\* with the footprint (0,0,W,H) of the whole base image, for every viewport.
C5_FullViewportCoversCanvas ==
    \A k \in DOMAIN plateCalls :
        IsFullViewport(plateCalls[k].design) =>
            Footprint(plateCalls[k]) =
                [x |-> RInt(0), y |-> RInt(0),
                 w |-> RInt(walletImg.naturalWidth), h |-> RInt(walletImg.naturalHeight)]

EndToEndDesign == Placement(100, 100, 50, 50, 45)

EndToEndRequest ==
    /\ walletImg.naturalWidth = 800 /\ walletImg.naturalHeight = 600
    /\ req.containerSize = [width |-> 400, height |-> 300]

\* C6: base image 800x600, viewport (400,300), placement (100,100) size
\* (50,50) rotation 45: scale 2, scaled position (200,200), scaled size
\* (100,100), pivot (250,250), drawn at (-50,-50) with size 100x100 about the
\* pivot.
C6_EndToEnd ==
    EndToEndRequest =>
        \A k \in DOMAIN plateCalls :
            plateCalls[k].design = EndToEndDesign =>
                /\ Scale(walletImg.naturalWidth, req.containerSize) = RInt(2)
                /\ Footprint(plateCalls[k]) =
                     [x |-> RInt(200), y |-> RInt(200), w |-> RInt(100), h |-> RInt(100)]
                /\ plateCalls[k].translate = [x |-> RInt(250), y |-> RInt(250)]
                /\ plateCalls[k].rect =
                     [x |-> RInt(-50), y |-> RInt(-50), w |-> RInt(100), h |-> RInt(100)]
                /\ plateCalls[k].rotate = [n |-> 1, d |-> 4]

\* the end-to-end request with its one design painted
C6_Witness ==
    /\ EndToEndRequest
    /\ req.designs = << EndToEndDesign >>
    /\ Len(req.designImagesSrc) = 1
    /\ Len(plateCalls) = 1

\* C7: two designs of one request with the same position and size get the
\* same pivot and the same drawn rectangle whatever their rotations; the
\* rotation only sets the angle passed to rotate.
C7_PivotIgnoresRotation ==
    \A j, k \in DOMAIN plateCalls :
        /\ (/\ plateCalls[j].design.position = plateCalls[k].design.position
            /\ plateCalls[j].design.size = plateCalls[k].design.size)
             => /\ plateCalls[j].translate = plateCalls[k].translate
                /\ plateCalls[j].rect = plateCalls[k].rect
        /\ plateCalls[k].rotate.n * 180 = plateCalls[k].design.rotation * plateCalls[k].rotate.d

\* two designs painted with the same position and size and different rotations
C7_Witness ==
    \E j, k \in DOMAIN plateCalls :
        /\ plateCalls[j].design.position = plateCalls[k].design.position
        /\ plateCalls[j].design.size = plateCalls[k].design.size
        /\ plateCalls[j].design.rotation # plateCalls[k].design.rotation
        /\ plateCalls[j].rotate # plateCalls[k].rotate

\* C8: with fewer placements than design images the request is rejected, is
\* never resolved, and no design is painted onto the plate.
C8_ShortPlacementsFailFast ==
    Len(req.designs) < Len(req.designImagesSrc) =>
        /\ promise.state # "resolved"
        /\ pc = "done" => promise.state = "rejected"
        /\ plateCalls = <<>>

\* C9: when the base image fails to decode the promise is rejected with a
\* descriptive error, is never resolved with an asset, and no design decode is
\* started; design decodes exist only once the base image has loaded.
C9_WalletFailureRejects ==
    /\ walletImg.state = "error" =>
         /\ promise.state = "rejected"
         /\ promise.reason = <<"Failed to load wallet image for processing", 0>>
         /\ promise.captureImage = NoImage /\ promise.guideImage = NoImage
         /\ imgs = <<>> /\ allP = "none" /\ completed = <<>>
    /\ (imgs # <<>> \/ allP # "none") => walletImg.state = "loaded"

\* the base image of a request with designs failed to decode
C9_Witness ==
    /\ walletImg.state = "error"
    /\ Len(req.designImagesSrc) >= 1
    /\ pc = "done"

\* C10: when getContext yields no context for any of the three canvases the
\* promise ends rejected and is never resolved with a captureImage or
\* guideImage.
C10_NoContextRejects ==
    ctxNull # {} =>
        /\ promise.state = "rejected"
        /\ promise.captureImage = NoImage /\ promise.guideImage = NoImage

\* the guide canvas got no context after the capture image had been encoded
C10_Witness ==
    /\ ctxNull = {"magentaGuide"}
    /\ captureImage # NoImage
    /\ plateCalls # <<>>

\* C11: the capture image is computed in every mode and is the base image with
\* the unmodified design plate on top; in ENGRAVE/EMBOSS mode it is encoded
\* before the plate is rewritten, and the rewrite leaves the capture image
\* that is returned as it was.
C11_CaptureBeforeRewrite ==
    [][ /\ (pc = "capture" /\ pc' = "guide") =>
             /\ captureImage'.mime = "image/jpeg"
             /\ captureImage' = Encode(DrawCanvas(plate, DrawCanvas(walletImg.px, NewCanvas)))
             /\ \A i \in 1..NumPixels :
                  /\ plate[i][4] = 255 =>
                       captureImage'.px[i] = <<plate[i][1], plate[i][2], plate[i][3]>>
                  /\ plate[i][4] = 0 =>
                       captureImage'.px[i] =
                         <<walletImg.px[i][1], walletImg.px[i][2], walletImg.px[i][3]>>
        /\ (pc = "guide" /\ promise'.state = "resolved") =>
             /\ captureImage # NoImage
             /\ captureImage' = captureImage
             /\ promise'.captureImage = captureImage
             /\ promise'.captureImage =
                  Encode(DrawCanvas(plate, DrawCanvas(walletImg.px, NewCanvas)))
      ]_vars

\* a resolved ENGRAVE/EMBOSS request whose plate pixel was rewritten to magenta
\* while the capture image returned shows the design's own colour there
C11_Witness ==
    /\ promise.state = "resolved"
    /\ req.mockupType \in Keyed
    /\ \E i \in 1..NumPixels :
         /\ plate[i] = <<255, 0, 255, 255>>
         /\ promise.captureImage.px[i] = <<200, 0, 0>>

\* C13: whenever the plate's context is between two designs or past the last
\* one, its transform is the one it had on entry (the identity), its save stack
\* is as deep as on entry (empty), and every design was drawn under its own
\* translate and rotate only.
C13_TransformsDoNotAccumulate ==
    plate # <<>> =>
        /\ plateCtx.transform = <<>>
        /\ plateCtx.stack = <<>>
        /\ Len(plateCtx.drawn) = Len(plateCalls)
        /\ \A k \in DOMAIN plateCalls :
             plateCtx.drawn[k] =
               << [op |-> "translate", x |-> plateCalls[k].translate.x,
                   y |-> plateCalls[k].translate.y],
                  [op |-> "rotate", x |-> plateCalls[k].rotate, y |-> RInt(0)] >>

\* two designs have been painted, the first of them rotated
C13_Witness ==
    /\ Len(plateCtx.drawn) >= 2
    /\ plateCalls[1].design.rotation # 0
    /\ pc \in {"paint", "capture"}

\* C14 as stated: while the base image or any design image is still decoding,
\* the promise is pending.
C14_PendingWhileAnyDecodes ==
    (walletImg.state = "loading" \/ \E i \in DOMAIN imgs : imgs[i] = "loading")
        => promise.state = "pending"

\* C14, amended: while the base image is decoding the promise is pending; while
\* a design image is decoding the promise is never resolved, and it is pending
\* unless another design image has failed; every source is decoded at most
\* once (one image element per source, one completion per image).
C14_PendingUnlessOtherFails ==
    /\ walletImg.state = "loading" => (promise.state = "pending" /\ imgs = <<>>)
    /\ (\E i \in DOMAIN imgs : imgs[i] = "loading") =>
         /\ promise.state # "resolved"
         /\ promise.state = "pending" \/ \E j \in DOMAIN imgs : imgs[j] = "error"
    /\ Len(imgs) <= Len(req.designImagesSrc)
    /\ \A j, k \in DOMAIN completed : j # k => completed[j] # completed[k]
    /\ \A k \in DOMAIN completed : imgs[completed[k]] = "loaded"

\* one design has decoded, another is still decoding, and the promise waits
C14_Witness ==
    /\ \E i \in DOMAIN imgs : imgs[i] = "loading"
    /\ \E i \in DOMAIN imgs : imgs[i] = "loaded"
    /\ promise.state = "pending"

\* C17: after the ENGRAVE/EMBOSS pass every plate pixel has alpha 0 or 255,
\* every alpha-255 pixel is exactly magenta, a pixel made transparent keeps its
\* RGB, and a second pass over the result changes no pixel; for every alpha
\* 0..255.
C17_RewriteBinaryIdempotent ==
    [][ KeyedGuideStep =>
          /\ \A i \in 1..NumPixels :
               /\ plate'[i][4] \in {0, 255}
               /\ plate'[i][4] = 255 => plate'[i] = <<255, 0, 255, 255>>
               /\ plate'[i][4] = 0 =>
                    <<plate'[i][1], plate'[i][2], plate'[i][3]>> =
                    <<plate[i][1], plate[i][2], plate[i][3]>>
          /\ RewritePlate(plate') = plate'
          /\ \A a \in 0..255 : \A c \in {0, 200, 255} :
               LET q == RewritePixel(<<c, 7, c, a>>)
               IN  /\ q[4] \in {0, 255}
                   /\ q[4] = 255 => q = <<255, 0, 255, 255>>
                   /\ q[4] = 0 => <<q[1], q[2], q[3]>> = <<c, 7, c>>
                   /\ RewritePixel(q) = q
      ]_vars

\* a resolved ENGRAVE/EMBOSS request whose plate holds a magenta pixel that
\* the guide shows
C17_Witness ==
    /\ promise.state = "resolved"
    /\ req.mockupType \in Keyed
    /\ \E i \in 1..NumPixels :
         /\ plate[i] = <<255, 0, 255, 255>>
         /\ promise.guideImage.px[i] = <<255, 0, 255>>

\* a runGeneration step: a generateMockup call is issued or settles
RunGenerationStep == request' # request

\* C12: handleConfirmGenerate and every later handleRegenerate give
\* generateMockup the guideImage stored by the last handleGenerate call,
\* unmodified; no new assets are produced on the way; runGeneration leaves
\* captureImage and lastGenerationAssets as they were.
C12_GuideReusedUnmodified ==
    [][ RunGenerationStep =>
          /\ request'.active =>
               /\ request'.image = generated.guideImage
               /\ request'.image = app.lastGenerationAssets.guideImage
               /\ request'.mockupType = app.lastMockupType
          /\ generated' = generated
          /\ app'.captureImage = app.captureImage
          /\ app'.lastGenerationAssets = app.lastGenerationAssets
          /\ UNCHANGED compVars
      ]_vars

\* a regeneration in flight (a result of an earlier generation is stored) that
\* carries a guide image different from the capture image
C12_Witness ==
    /\ request.active
    /\ app.mockupResult # Null
    /\ request.image = generated.guideImage
    /\ generated.guideImage # generated.captureImage

\* C15: while appState is GENERATING a generateMockup call is in flight; once
\* it has settled, whatever the outcome, appState is no longer GENERATING.
C15_GeneratingHasRequest ==
    app.appState = "GENERATING" => request.active

\* C16: appState = CONFIRM implies captureImage and lastGenerationAssets are
\* set, and appState = RESULT implies mockupResult is set.
C16_ScreensHaveData ==
    /\ app.appState = "CONFIRM" =>
         /\ app.captureImage # Null
         /\ app.lastGenerationAssets # NullAssets
         /\ app.lastGenerationAssets.captureImage = app.captureImage
    /\ app.appState = "RESULT" => app.mockupResult # Null

\* the confirmation screen reached again after a cancel, a failed generation
\* or an adjust
C16_Witness ==
    /\ app.appState = "CONFIRM"
    /\ app.mockupResult # Null
    /\ app.error # Null

====
